---- MODULE Spec2Model ----
(***************************************************************************)
(* A model of the Keyv key-value facade (src/src/index.js): the key        *)
(* namespacer, the entry envelope with its expiry, lazy expiration on      *)
(* read, and the facade operations over a shared storage adapter.          *)
(*                                                                         *)
(* JavaScript values are tagged records [t, n]: t is the typeof-like tag   *)
(* and n the number carried (0 when the tag carries none).  Strings that   *)
(* are keys are sequences of characters, so that concatenation is real.    *)
(***************************************************************************)
EXTENDS Integers, Sequences, FiniteSets, TLC

\* ------------------------------------------------------------- bounds
\* The clock (Date.now()) runs over 0..MaxNow.
MaxNow == 3
\* The largest explicit ttl argument.
MaxTtl == 1
\* The default ttl of a facade constructed with one.
DefaultTtl == 2
\* User values are 1..MaxVal.
MaxVal == 2
\* The longest sequence handed to the mapper.
MaxItems == 3
\* The largest concurrency option.
MaxConc == 3

\* ------------------------------------------------------------- values
Undef == [t |-> "undefined", n |-> 0]
Null == [t |-> "null", n |-> 0]
Num(i) == [t |-> "number", n |-> i]

Values == 1..MaxVal
\* The ttl argument of set: omitted, null, or a number of milliseconds.
TtlArgs == {Undef, Null} \cup {Num(i) : i \in 0..MaxTtl}

\* Logical keys; the second one contains the separator.
Keys == {<<"x">>, <<"b", ":", "x">>}

\* ------------------------------------------------------------- options
\* this.opts of one facade: namespace, default ttl, default concurrency.
Opts(ns, ttl, conc) == [namespace |-> ns, ttl |-> ttl, concurrency |-> conc]

\* One facade over the store, with and without a default ttl.
SingleFacade == {<<Opts(<<"a">>, Undef, Undef)>>, <<Opts(<<"a">>, Num(DefaultTtl), Undef)>>}
\* Several facades constructed over the same store.
SharedFacades == <<Opts(<<"a">>, Undef, Undef), Opts(<<"b">>, Undef, Undef), Opts(<<"a", ":", "b">>, Undef, Undef)>>

\* ------------------------------------------------------------- pure parts
\* A namespacer that drops the namespace.
_getKeyPrefix_NoNamespace(o, key) == <<":">> \o key

\* A namespacer that leaves out the separator.
_getKeyPrefix_NoSeparator(o, key) == o.namespace \o key

\* _getKeyPrefix: `${namespace}:${key}`.
_getKeyPrefix(o, key) == o.namespace \o <<":">> \o key

\* The codec pair (JSONB.stringify / JSONB.parse): a string wrapping the entry.
serialize(entry) == [t |-> "string", data |-> entry]
deserialize(str) == str.data

\* An encoder that takes the ttl itself as the expiry, without the clock.
_setPreprocess_NoClock(o, value, ttl, t) ==
    LET ttl1 == IF ttl.t = "undefined" THEN o.ttl ELSE ttl
        ttl2 == IF ttl1 = Num(0) THEN Undef ELSE ttl1
        expires == IF ttl2.t = "number" THEN Num(ttl2.n) ELSE Null
    IN serialize([value |-> value, expires |-> expires])

\* An encoder without the rule that ttl = 0 means no expiry.
_setPreprocess_ZeroIsNumber(o, value, ttl, t) ==
    LET ttl1 == IF ttl.t = "undefined" THEN o.ttl ELSE ttl
        expires == IF ttl1.t = "number" THEN Num(t + ttl1.n) ELSE Null
    IN serialize([value |-> value, expires |-> expires])

\* _setPreprocess(value, ttl) at clock time t.
_setPreprocess(o, value, ttl, t) ==
    LET ttl1 == IF ttl.t = "undefined" THEN o.ttl ELSE ttl
        ttl2 == IF ttl1 = Num(0) THEN Undef ELSE ttl1
        expires == IF ttl2.t = "number" THEN Num(t + ttl2.n) ELSE Null
    IN serialize([value |-> value, expires |-> expires])

\* The in-memory adapter (new Map()): a function from the keys present.
MapGet(s, pk) == IF pk \in DOMAIN s THEN s[pk] ELSE Undef
MapSet(s, pk, raw) == [q \in DOMAIN s \cup {pk} |-> IF q = pk THEN raw ELSE s[q]]
\* A delete that empties the adapter.
MapDelete_All(s, pk) == [q \in {} |-> s[q]]
MapDelete(s, pk) == [q \in DOMAIN s \ {pk} |-> s[q]]
MapHas(s, pk) == pk \in DOMAIN s
\* A clear that removes nothing.
MapClear_Keeps(s) == s
MapClear(s) == [q \in {} |-> Undef]

\* Results handed to the caller.
Miss == [kind |-> "undefined", value |-> 0, expires |-> Null]
Hit(v) == [kind |-> "value", value |-> v, expires |-> Null]
RawHit(e) == [kind |-> "entry", value |-> e.value, expires |-> e.expires]

\* _getPostprocess, first step: decode a textual stored form.
Decode(data) == IF data.t = "string" THEN deserialize(data) ELSE data
\* An expiry test that already expires an entry at its deadline.
IsExpired_AtDeadline(entry, t) == entry.expires.t = "number" /\ t >= entry.expires.n
\* _getPostprocess, the expiry test on a decoded entry at clock time t.
IsExpired(entry, t) == entry.expires.t = "number" /\ t > entry.expires.n
\* _getPostprocess, what is returned for stored data at clock time t.
PostResult(data, raw, t) ==
    IF data = Undef THEN Miss
    ELSE IF IsExpired(Decode(data), t) THEN Miss
    ELSE IF raw THEN RawHit(Decode(data)) ELSE Hit(Decode(data).value)
\* A cleanup that deletes whatever entry it was handed.
PostDeletes_Always(data, t) == data # Undef
\* _getPostprocess, whether it calls this.delete(key).
PostDeletes(data, t) == data # Undef /\ IsExpired(Decode(data), t)

\* ------------------------------------------------------------- mapper, pure parts
Min(a, b) == IF a < b THEN a ELSE b

\* The concurrency option: absent, or a number (negative and zero included).
ConcArgs == {Undef} \cup {Num(i) : i \in (-1)..MaxConc}

\* JavaScript truthiness of an option value.
Truthy(v) == IF v.t = "number" THEN v.n # 0 ELSE v.t \notin {"undefined", "null"}

\* A mapper without the unbounded branch.
Bounded_Always(c) == TRUE
\* concurrentMap takes the bounded branch: not (!concurrency || concurrency < 0).
Bounded(c) == Truthy(c) /\ ~(c.t = "number" /\ c.n < 0)

\* A worker count that starts one loop per item.
WorkerCount_PerItem(len, c) == len
\* The number of worker loops: Math.min(resolvedItems.length, concurrency).
WorkerCount(len, c) == Min(len, c.n)

\* One async function of the mapper: a worker loop (bounded) or an item's
\* task (unbounded).  st: "await" (holding an item, func not yet called),
\* "run" (func called, not settled), "del" (func awaits this.delete),
\* "done", "failed".
Worker(st, idx) == [st |-> st, idx |-> idx, ret |-> Undef]

\* The async functions right after concurrentMap built them: each has taken
\* its first entry of the shared iterator, if there was one left.
InitWorkers(its, c) ==
    IF Bounded(c)
    THEN [w \in 1..WorkerCount(Len(its), c) |->
             IF w <= Len(its) THEN Worker("await", w - 1) ELSE Worker("done", 0)]
    ELSE [w \in 1..Len(its) |-> Worker("await", w - 1)]
\* Worker loops that each start on an iterator of their own.
InitCursor_Zero(its, c) == 0
\* The entries the shared iterator has yielded by then.
InitCursor(its, c) == IF Bounded(c) THEN Min(Len(its), WorkerCount(Len(its), c)) ELSE Len(its)

\* An insertion for the comparator b.idx - a.idx.
RECURSIVE InsertByIdx_Descending(_, _)
InsertByIdx_Descending(r, sorted) ==
    IF sorted = <<>> THEN <<r>>
    ELSE IF r.idx > Head(sorted).idx THEN <<r>> \o sorted
    ELSE <<Head(sorted)>> \o InsertByIdx_Descending(r, Tail(sorted))

\* results left in the order the transforms settled.
SortByIdx_Unsorted(rs) == rs
\* results.sort((a, b) => a.idx - b.idx): a stable insertion sort.
RECURSIVE InsertByIdx(_, _)
InsertByIdx(r, sorted) ==
    IF sorted = <<>> THEN <<r>>
    ELSE IF r.idx < Head(sorted).idx THEN <<r>> \o sorted
    ELSE <<Head(sorted)>> \o InsertByIdx(r, Tail(sorted))
RECURSIVE SortFrom(_, _)
SortFrom(rs, sorted) ==
    IF rs = <<>> THEN sorted ELSE SortFrom(Tail(rs), InsertByIdx(Head(rs), sorted))
SortByIdx(rs) == SortFrom(rs, <<>>)

\* The transform of the plain mapper: any function of the item and its index.
func(el, idx) == Num(10 * el + idx)

\* A zip that pairs every key with the first datum.
zip_FirstOnly(a, b) == [i \in 1..Len(a) |-> <<a[i], b[1]>>]
\* zip(a, b): the pairs [a[i], b[i]].
zip(a, b) == [i \in 1..Len(a) |-> <<a[i], b[i]>>]

\* Sequences over S of length 0..n.
SeqsUpTo(S, n) == UNION {[1..m -> S] : m \in 0..n}

\* ------------------------------------------------------------- state
VARIABLES
    opts,     \* the facades constructed over the store: a sequence of this.opts
    pending,  \* per caller: the single-key facade call it awaits, step by step
    store,    \* the storage adapter's content: physical key -> stored form
    now,      \* Date.now()
    last,     \* the last facade call that resolved, with its result
    hist,     \* per physical key ever set: the caller's last set, or the delete
              \* or clear that removed it since
    call,     \* the batch call (or plain map) in flight
    items,    \* concurrentMap: resolvedItems
    conc,     \* concurrentMap: the concurrency option
    workers,  \* concurrentMap: its async functions
    cursor,   \* concurrentMap: entries the shared iterator has yielded
    results,  \* concurrentMap: the {idx, result} pushed so far
    mstatus,  \* the returned promise: "none", "pending", "resolved", "rejected"
    mout,     \* the sequence it resolved to
    merr      \* the index whose failure rejected it, or -1

facadeVars == <<opts, pending, store, now, last, hist>>
mapVars == <<call, items, conc, workers, cursor, results, mstatus, mout, merr>>
vars == <<opts, pending, store, now, last, hist, call, items, conc, workers, cursor,
          results, mstatus, mout, merr>>

\* The application's tasks that call the facade; each awaits one call at a time.
Callers == {"reader", "writer"}

\* No adapter operation issued yet.
NoOps == [q \in {} |-> 0]
\* One more issue of adapter operation (or transform) q.
Issue(ops, q) ==
    [x \in DOMAIN ops \cup {q} |-> IF x = q THEN (IF q \in DOMAIN ops THEN ops[q] + 1 ELSE 1)
                                     ELSE ops[x]]

\* The rejection reason of the adapter operation op on physical key pk.
AdapterError(op, pk) == [op |-> op, key |-> pk]
NoError == AdapterError("none", <<>>)

\* A caller's slot.  st is where its call stands: "idle"; "read" (store.get
\* issued), "post" (store.get settled with data, _getPostprocess to run),
\* "del" (this.delete issued for an expired entry), "write" (value encoded
\* into data, store.set issued), "delete" (store.delete issued), "clear"
\* (store.clear issued); "resolved" with res, or "rejected" with err.
\* ops counts the adapter operations the call has issued; at is the clock
\* value the call last read.
NoSlot == [op |-> "none", st |-> "idle", fac |-> 0, key |-> <<>>, val |-> 0, ttl |-> Undef,
           raw |-> FALSE, data |-> Undef, res |-> Miss, err |-> NoError, ops |-> NoOps,
           at |-> 0, race |-> FALSE]
NoPending == [c \in Callers |-> NoSlot]

NoCall == [op |-> "none", fac |-> 0, key |-> <<>>, val |-> 0, ttl |-> Undef,
           raw |-> FALSE, found |-> Undef, res |-> Miss, dels |-> {}, at |-> 0,
           after |-> "none", via |-> 0]

\* hist entries.
Written(v, ttl) == [op |-> "set", val |-> v, ttl |-> ttl]
Removed(op) == [op |-> op, val |-> 0, ttl |-> Undef]

\* No batch call.  kind is the step the call is at: "map" (the plain mapper),
\* "native" (the adapter's batch method), "read" / "write" (the mapper over
\* store.get / store.set), "post" (the mapper over _getPostprocess), "done".
\* store0 and at are the store and the clock when the call was made.
\* For mset: shape is the call shape ("seq": keys[], values[]; "map": one
\* mapping), vals the values, a and b the two arguments after them.
\* ops counts the transforms called and the adapter operations issued, per
\* index; late holds the indexes whose transform was called after the
\* returned promise had rejected; fails lists the failed indexes in the order
\* they failed.
NoBatch == [op |-> "none", kind |-> "none", fac |-> 0, keys |-> <<>>, raw |-> FALSE,
            native |-> FALSE, store0 |-> <<>>, at |-> 0,
            shape |-> "none", vals |-> <<>>, a |-> Undef, b |-> Undef,
            ops |-> NoOps, late |-> {}, fails |-> <<>>]

\* No concurrentMap running.
MapIdle ==
    /\ call = NoBatch
    /\ items = <<>>
    /\ conc = Undef
    /\ workers = <<>>
    /\ cursor = 0
    /\ results = <<>>
    /\ mstatus = "none"
    /\ mout = <<>>
    /\ merr = -1

Init ==
    /\ opts \in SingleFacade
    /\ store = MapClear(<<>>)
    /\ now = 0
    /\ pending = NoPending
    /\ last = NoCall
    /\ hist = MapClear(<<>>)
    /\ MapIdle

InitShared ==
    /\ opts = SharedFacades
    /\ store = MapClear(<<>>)
    /\ now = 0
    /\ pending = NoPending
    /\ last = NoCall
    /\ hist = MapClear(<<>>)
    /\ MapIdle

\* What the call before this one was, for a call on facade f and key k:
\* "set" / "delete" when it addressed the same facade and key at the same
\* clock value, "clear" for a clear at the same clock value.
After(f, k) ==
    IF last.at # now THEN "none"
    ELSE IF last.op = "clear" THEN "clear"
    ELSE IF last.op \in {"set", "delete"} /\ last.fac = f /\ last.key = k THEN last.op
    ELSE "none"

\* The facade through which the call before this one set physical key pk at
\* the same clock value, 0 when it was no such set.
Via(pk) ==
    IF last.op = "set" /\ last.at = now /\ _getKeyPrefix(opts[last.fac], last.key) = pk
    THEN last.fac ELSE 0

\* set(key, value, ttl): resolves to true.
Set(f, k, v, ttl) ==
    LET pk == _getKeyPrefix(opts[f], k)
        raw == _setPreprocess(opts[f], v, ttl, now)
    IN /\ store' = MapSet(store, pk, raw)
       /\ hist' = MapSet(hist, pk, Written(v, ttl))
       /\ last' = [NoCall EXCEPT !.op = "set", !.fac = f, !.key = k, !.val = v,
                                 !.ttl = ttl, !.res = Hit(1), !.at = now]
       /\ UNCHANGED <<opts, pending, now, mapVars>>

\* get(key, opts): store.get, then _getPostprocess, which deletes an expired entry.
Get(f, k, raw) ==
    LET pk == _getKeyPrefix(opts[f], k)
        data == MapGet(store, pk)
    IN /\ store' = IF PostDeletes(data, now) THEN MapDelete(store, pk) ELSE store
       /\ last' = [NoCall EXCEPT !.op = "get", !.fac = f, !.key = k, !.raw = raw,
                                 !.found = data,
                                 !.res = PostResult(data, raw, now),
                                 !.dels = IF PostDeletes(data, now) THEN {pk} ELSE {},
                                 !.at = now, !.after = After(f, k),
                                 !.val = IF After(f, k) = "set" THEN last.val ELSE 0,
                                 !.via = Via(pk)]
       /\ UNCHANGED <<opts, pending, now, hist, mapVars>>

\* delete(key): resolves to the adapter's boolean.
Delete(f, k) ==
    LET pk == _getKeyPrefix(opts[f], k)
    IN /\ store' = MapDelete(store, pk)
       /\ hist' = IF MapHas(hist, pk) /\ hist[pk].op = "set"
                  THEN MapSet(hist, pk, Removed("delete")) ELSE hist
       /\ last' = [NoCall EXCEPT !.op = "delete", !.fac = f, !.key = k,
                                 !.res = Hit(IF MapHas(store, pk) THEN 1 ELSE 0),
                                 !.dels = {pk}, !.at = now]
       /\ UNCHANGED <<opts, pending, now, mapVars>>

\* clear(): the adapter removes every key it holds.
Clear(f) ==
    /\ store' = MapClear(store)
    /\ hist' = [q \in DOMAIN hist |-> Removed("clear")]
    /\ last' = [NoCall EXCEPT !.op = "clear", !.fac = f, !.at = now]
    /\ UNCHANGED <<opts, pending, now, mapVars>>

\* Time passes between calls.
Tick ==
    /\ now < MaxNow
    /\ now' = now + 1
    /\ UNCHANGED <<opts, pending, store, last, hist, mapVars>>

Next ==
    \/ \E f \in DOMAIN opts, k \in Keys, v \in Values, ttl \in TtlArgs : Set(f, k, v, ttl)
    \/ \E f \in DOMAIN opts, k \in Keys, raw \in BOOLEAN : Get(f, k, raw)
    \/ \E f \in DOMAIN opts, k \in Keys : Delete(f, k)
    \/ \E f \in DOMAIN opts : Clear(f)
    \/ Tick

Spec == Init /\ [][Next]_vars

\* Calls through several facades over one store, at one clock value.
NextShared ==
    \/ \E f \in DOMAIN opts, k \in Keys, v \in Values : Set(f, k, v, Undef)
    \/ \E f \in DOMAIN opts, k \in Keys : Get(f, k, FALSE)
    \/ \E f \in DOMAIN opts, k \in Keys : Delete(f, k)

SpecShared == InitShared /\ [][NextShared]_vars

\* Namespaces with and without the separator.
Namespaces == {<<"a">>, <<"b">>, <<"a", ":", "b">>}

\* Two facades over one store, their namespaces equal or different.
InitNs ==
    /\ opts \in {<<Opts(n1, Undef, Undef), Opts(n2, Undef, Undef)>> :
                  n1 \in Namespaces, n2 \in Namespaces}
    /\ pending = NoPending
    /\ store = MapClear(<<>>)
    /\ now = 0
    /\ last = NoCall
    /\ hist = MapClear(<<>>)
    /\ MapIdle

SpecNs == InitNs /\ [][NextShared]_vars

\* ------------------------------------------------------------- concurrentMap
\* What func is in the mapper running: the plain transform, store.get,
\* store.set or _getPostprocess.
Transform ==
    CASE call.kind = "read" -> "get"
      [] call.kind = "write" -> "set"
      [] call.kind = "post" -> "post"
      [] OTHER -> "func"

\* Async function w, holding an item, calls func on it.
WorkerCall(w) ==
    /\ workers[w].st = "await"
    /\ workers' = [workers EXCEPT ![w].st = "run"]
    /\ call' = [call EXCEPT !.ops = Issue(@, <<Transform, workers[w].idx>>),
                            !.late = IF mstatus = "rejected" THEN @ \cup {workers[w].idx}
                                     ELSE @]
    /\ UNCHANGED <<facadeVars, items, conc, cursor, results, mstatus, mout, merr>>

\* func settled with result r in async function w.  Bounded: push
\* {idx, result}, then take the next entry of the shared iterator or end the
\* loop.  Unbounded: the task returns r.
FinishItem(w, r) ==
    IF Bounded(conc)
    THEN /\ results' = Append(results, [idx |-> workers[w].idx, result |-> r])
         /\ IF cursor < Len(items)
            THEN /\ workers' = [workers EXCEPT ![w] = Worker("await", cursor)]
                 /\ cursor' = cursor + 1
            ELSE /\ workers' = [workers EXCEPT ![w].st = "done"]
                 /\ cursor' = cursor
    ELSE /\ workers' = [workers EXCEPT ![w].st = "done", ![w].ret = r]
         /\ UNCHANGED <<cursor, results>>

\* The plain transform of async function w resolves.
MapSettle(w) ==
    /\ call.kind = "map"
    /\ workers[w].st = "run"
    /\ FinishItem(w, func(items[workers[w].idx + 1], workers[w].idx))
    /\ UNCHANGED <<facadeVars, call, items, conc, mstatus, mout, merr>>

\* A failure that cancels every async function of the mapper.
Reject_StopsAll(w) ==
    /\ workers' = [x \in DOMAIN workers |-> [workers[x] EXCEPT !.st = "failed"]]
    /\ mstatus' = IF mstatus = "pending" THEN "rejected" ELSE mstatus
    /\ merr' = IF mstatus = "pending" THEN workers[w].idx ELSE merr
    /\ call' = [call EXCEPT !.fails = Append(@, workers[w].idx)]

\* A Promise.all that takes the reason of the latest rejection.
FirstError_Latest(status, err, e) == e
\* Promise.all rejects with the reason of the first rejection among its
\* promises; later rejections change nothing.
FirstError(status, err, e) == IF status = "pending" THEN e ELSE err

\* func of async function w rejects: the async function throws and ends, the
\* Promise.all over the async functions rejects if it has not yet; the other
\* async functions go on.
Reject(w) ==
    /\ workers' = [workers EXCEPT ![w].st = "failed"]
    /\ mstatus' = IF mstatus = "pending" THEN "rejected" ELSE mstatus
    /\ merr' = FirstError(mstatus, merr, workers[w].idx)
    /\ call' = [call EXCEPT !.fails = Append(@, workers[w].idx)]

\* The plain transform of async function w rejects.
MapFail(w) ==
    /\ call.kind = "map"
    /\ workers[w].st = "run"
    /\ Reject(w)
    /\ UNCHANGED <<facadeVars, items, conc, cursor, results, mout>>

\* A combinator that resolves as soon as one async function has.
MapperSettled_FirstDone == mstatus = "pending" /\ \E w \in DOMAIN workers : workers[w].st = "done"
\* Promise.all over the async functions has resolved.
MapperSettled == mstatus = "pending" /\ \A w \in DOMAIN workers : workers[w].st = "done"

\* What concurrentMap resolves to: the sorted results (bounded), or
\* Promise.all's array of the tasks' return values (unbounded).
MapperOutput ==
    IF Bounded(conc)
    THEN LET sorted == SortByIdx(results)
         IN [i \in 1..Len(sorted) |-> sorted[i].result]
    ELSE [i \in 1..Len(workers) |-> workers[i].ret]

\* The plain concurrentMap resolves.
MapResolve ==
    /\ call.kind = "map"
    /\ MapperSettled
    /\ mstatus' = "resolved"
    /\ mout' = MapperOutput
    /\ UNCHANGED <<facadeVars, call, items, conc, workers, cursor, results, merr>>

\* concurrentMap(items, func, {concurrency}) has just been called.
InitMap ==
    /\ opts = <<Opts(<<"a">>, Undef, Undef)>>
    /\ store = MapClear(<<>>)
    /\ now = 0
    /\ pending = NoPending
    /\ last = NoCall
    /\ hist = MapClear(<<>>)
    /\ call = [NoBatch EXCEPT !.op = "map", !.kind = "map"]
    /\ items \in SeqsUpTo(Values, MaxItems)
    /\ conc \in ConcArgs
    /\ workers = InitWorkers(items, conc)
    /\ cursor = InitCursor(items, conc)
    /\ results = <<>>
    /\ mstatus = "pending"
    /\ mout = <<>>
    /\ merr = -1

NextMap ==
    \/ \E w \in DOMAIN workers : WorkerCall(w)
    \/ \E w \in DOMAIN workers : MapSettle(w)
    \/ \E w \in DOMAIN workers : MapFail(w)
    \/ MapResolve

SpecMap == InitMap /\ [][NextMap]_vars

\* ------------------------------------------------------------- mget
\* (opts && opts.concurrency) || this.opts.concurrency
ResolveConcurrency(c, o) == IF Truthy(c) THEN c ELSE o.concurrency

\* keys.map(this._getKeyPrefix.bind(this))
PrefixAll(o, keys) == [i \in 1..Len(keys) |-> _getKeyPrefix(o, keys[i])]

\* concurrentMap(its, func, {concurrency: c}) is called.
StartMap(its, c) ==
    /\ items' = its
    /\ conc' = c
    /\ workers' = InitWorkers(its, c)
    /\ cursor' = InitCursor(its, c)
    /\ results' = <<>>
    /\ mstatus' = "pending"

\* Stores a facade has written before the batch call: per logical key no
\* entry, an entry without expiry, or an entry that is live when the call
\* starts and expired one tick later.  The value tells the keys apart.
KeyValue(k) == Len(k)
WrittenAt == MaxNow - 1 - MaxTtl
RECURSIVE PreparedStores(_, _)
PreparedStores(o, ks) ==
    IF ks = {} THEN {MapClear(<<>>)}
    ELSE LET k == CHOOSE x \in ks : TRUE
             rest == PreparedStores(o, ks \ {k})
             pk == _getKeyPrefix(o, k)
         IN rest
            \cup {MapSet(s, pk, _setPreprocess(o, KeyValue(k), Undef, WrittenAt)) : s \in rest}
            \cup {MapSet(s, pk, _setPreprocess(o, KeyValue(k), Num(MaxTtl), WrittenAt)) : s \in rest}

\* mget(keys, {raw, concurrency: c}) on a store with or without a native mget.
MgetCall(f, keys, raw, c, native) ==
    /\ call = NoBatch
    /\ call' = [NoBatch EXCEPT !.op = "mget", !.kind = IF native THEN "native" ELSE "read",
                                !.fac = f, !.keys = keys, !.raw = raw, !.native = native,
                                !.store0 = store, !.at = now,
                                !.ops = IF native THEN Issue(@, <<"mget", 0>>) ELSE @]
    /\ IF native
       THEN /\ items' = PrefixAll(opts[f], keys)
            /\ conc' = ResolveConcurrency(c, opts[f])
            /\ UNCHANGED <<workers, cursor, results, mstatus>>
       ELSE StartMap(PrefixAll(opts[f], keys), ResolveConcurrency(c, opts[f]))
    /\ UNCHANGED <<facadeVars, mout, merr>>

\* store.get(pk) of async function w resolves with what the adapter holds.
ReadSettle(w) ==
    /\ call.kind = "read"
    /\ workers[w].st = "run"
    /\ FinishItem(w, MapGet(store, items[workers[w].idx + 1]))
    /\ UNCHANGED <<facadeVars, call, items, conc, mstatus, mout, merr>>

\* The mapper over store.get resolved: the mapper over _getPostprocess starts
\* on zip(keys, data).
ReadsDone ==
    /\ call.kind = "read"
    /\ MapperSettled
    /\ call' = [call EXCEPT !.kind = "post"]
    /\ StartMap(zip(call.keys, MapperOutput), conc)
    /\ UNCHANGED <<facadeVars, mout, merr>>

\* store.mget(keysPrefixed, {concurrency}) resolved with the stored forms in
\* the order of the keys: the mapper over _getPostprocess starts.
NativeMgetDone ==
    /\ call.op = "mget" /\ call.kind = "native"
    /\ call' = [call EXCEPT !.kind = "post"]
    /\ StartMap(zip(call.keys, [i \in 1..Len(items) |-> MapGet(store, items[i])]), conc)
    /\ UNCHANGED <<facadeVars, mout, merr>>

\* _getPostprocess(key, d, opts) of async function w reads the clock: a live
\* or absent entry settles it, an expired one makes it call this.delete(key).
PostCheck(w) ==
    /\ call.kind = "post"
    /\ workers[w].st = "run"
    /\ LET data == items[workers[w].idx + 1][2]
       IN IF PostDeletes(data, now)
          THEN /\ workers' = [workers EXCEPT ![w].st = "del"]
               /\ call' = [call EXCEPT !.ops = Issue(@, <<"delete", workers[w].idx>>)]
               /\ UNCHANGED <<cursor, results>>
          ELSE /\ FinishItem(w, PostResult(data, call.raw, now))
               /\ call' = call
    /\ UNCHANGED <<facadeVars, items, conc, mstatus, mout, merr>>

\* The delete of an expired key resolved: _getPostprocess returns undefined.
PostDeleted(w) ==
    /\ call.kind = "post"
    /\ workers[w].st = "del"
    /\ store' = MapDelete(store, _getKeyPrefix(opts[call.fac], items[workers[w].idx + 1][1]))
    /\ FinishItem(w, Miss)
    /\ UNCHANGED <<opts, pending, now, last, hist, call, items, conc, mstatus, mout, merr>>

\* The mapper over _getPostprocess resolved: mget resolves to its output.
MgetResolve ==
    /\ call.op = "mget" /\ call.kind = "post"
    /\ MapperSettled
    /\ call' = [call EXCEPT !.kind = "done"]
    /\ mstatus' = "resolved"
    /\ mout' = MapperOutput
    /\ last' = [NoCall EXCEPT !.op = "mget", !.fac = call.fac, !.raw = call.raw, !.at = now]
    /\ UNCHANGED <<opts, pending, store, now, hist, items, conc, workers, cursor, results, merr>>

\* A facade with or without a default concurrency, over a store it has
\* written, one tick before the expiring entries expire.
InitMget ==
    /\ opts \in {<<Opts(<<"a">>, Undef, c)>> : c \in {Undef, Num(1)}}
    /\ store \in PreparedStores(opts[1], Keys)
    /\ now = MaxNow - 1
    /\ pending = NoPending
    /\ last = NoCall
    /\ hist = MapClear(<<>>)
    /\ MapIdle

NextMget ==
    \/ \E keys \in SeqsUpTo(Keys, MaxItems), raw \in BOOLEAN, c \in {Undef, Num(2)},
          native \in BOOLEAN : MgetCall(1, keys, raw, c, native)
    \/ \E w \in DOMAIN workers : WorkerCall(w)
    \/ \E w \in DOMAIN workers : ReadSettle(w)
    \/ ReadsDone
    \/ NativeMgetDone
    \/ \E w \in DOMAIN workers : PostCheck(w)
    \/ \E w \in DOMAIN workers : PostDeleted(w)
    \/ MgetResolve
    \/ Tick

SpecMget == InitMget /\ [][NextMget]_vars

\* ------------------------------------------------------------- mset
\* An options object {concurrency: c}; c = 0 stands for no concurrency given.
OptsObj(c) == [t |-> "object", n |-> c]
\* opts.concurrency of a value passed as opts.
ConcurrencyOf(v) == IF v.t = "object" /\ v.n # 0 THEN Num(v.n) ELSE Undef

\* The head of mset: from the call shape and the two arguments after the
\* keys and values (or after the mapping) to the ttl and opts the body uses.
\* "seq": (keys, values, ttl = a, opts = b, {} when b is omitted);
\* "map": [keys, values, ttl, opts] = [Object.keys, Object.values, values, ttl],
\* so ttl = a and opts = b with no default.  Then
\* if (!opts && typeof ttl === 'object') [ttl, opts] = [null, ttl].
MsetNormalize(shape, a, b) ==
    LET ttl0 == a
        opts0 == IF shape = "seq" /\ b = Undef THEN OptsObj(0) ELSE b
        swap == ~Truthy(opts0) /\ ttl0.t \in {"object", "null"}
    IN [ttl |-> IF swap THEN Null ELSE ttl0,
        opts |-> IF swap THEN ttl0 ELSE opts0]

\* (opts && opts.concurrency) || this.opts.concurrency in mset.
MsetConcurrency(n, o) ==
    IF Truthy(n.opts) /\ Truthy(ConcurrencyOf(n.opts)) THEN ConcurrencyOf(n.opts)
    ELSE o.concurrency

\* values.map(v => this._setPreprocess(v, ttl)) at clock time t.
PreprocessAll(o, vals, ttl, t) == [i \in 1..Len(vals) |-> _setPreprocess(o, vals[i], ttl, t)]

\* The pairs [physical key, stored form] written to the adapter one after
\* the other, as its batch write or the in-memory adapter does.
RECURSIVE WriteAll(_, _)
WriteAll(s, pairs) ==
    IF pairs = <<>> THEN s
    ELSE WriteAll(MapSet(s, Head(pairs)[1], Head(pairs)[2]), Tail(pairs))

\* The store an mset call made at clock time t on store s0 leaves.
MsetOutcome(o, s0, t, shape, keys, vals, a, b) ==
    WriteAll(s0, zip(PrefixAll(o, keys),
                     PreprocessAll(o, vals, MsetNormalize(shape, a, b).ttl, t)))

\* The values of a batch write: position i carries value ((i - 1) mod MaxVal) + 1.
ValuesFor(keys) == [i \in 1..Len(keys) |-> ((i - 1) % MaxVal) + 1]

\* Key sequences without a repeated key: what Object.keys of a mapping is.
Distinct(keys) == \A i, j \in 1..Len(keys) : i # j => keys[i] # keys[j]

\* The arguments after the keys and values: the ttl position holds nothing,
\* null, a number, or (for a mapping) the opts; the opts position holds
\* nothing or an options object.
MsetTtlArgs(shape) == TtlArgs \cup (IF shape = "map" THEN {OptsObj(0), OptsObj(2)} ELSE {})
MsetOptsArgs(a) == IF a.t = "object" THEN {Undef} ELSE {Undef, OptsObj(0), OptsObj(2)}

\* mset(keys, values, a, b) or mset(mapping, a, b): the values are encoded at
\* the clock value of the call, then the adapter's mset or the mapper over
\* store.set runs.
MsetCall(f, shape, keys, a, b, native) ==
    LET n == MsetNormalize(shape, a, b)
        pairs == zip(PrefixAll(opts[f], keys),
                     PreprocessAll(opts[f], ValuesFor(keys), n.ttl, now))
    IN /\ call = NoBatch
       /\ shape = "map" => Distinct(keys)
       /\ call' = [NoBatch EXCEPT !.op = "mset", !.kind = IF native THEN "native" ELSE "write",
                                   !.fac = f, !.keys = keys, !.native = native,
                                   !.store0 = store, !.at = now, !.shape = shape,
                                   !.vals = ValuesFor(keys), !.a = a, !.b = b,
                                   !.ops = IF native THEN Issue(@, <<"mset", 0>>) ELSE @]
       /\ IF native
          THEN /\ items' = pairs
               /\ conc' = MsetConcurrency(n, opts[f])
               /\ UNCHANGED <<workers, cursor, results, mstatus>>
          ELSE StartMap(pairs, MsetConcurrency(n, opts[f]))
       /\ UNCHANGED <<facadeVars, mout, merr>>

\* store.set(key, value, ttl) of async function w resolves.
WriteSettle(w) ==
    /\ call.kind = "write"
    /\ workers[w].st = "run"
    /\ store' = MapSet(store, items[workers[w].idx + 1][1], items[workers[w].idx + 1][2])
    /\ FinishItem(w, Undef)
    /\ UNCHANGED <<opts, pending, now, last, hist, call, items, conc, mstatus, mout, merr>>

\* The mapper over store.set resolved: mset resolves to true.
MsetResolve ==
    /\ call.kind = "write"
    /\ MapperSettled
    /\ call' = [call EXCEPT !.kind = "done"]
    /\ mstatus' = "resolved"
    /\ mout' = MapperOutput
    /\ last' = [NoCall EXCEPT !.op = "mset", !.fac = call.fac, !.res = Hit(1), !.at = now]
    /\ UNCHANGED <<opts, pending, store, now, hist, items, conc, workers, cursor, results, merr>>

\* store.mset(keysPrefixed, values, ttl, {concurrency}) resolved: mset
\* resolves to true.
NativeMsetDone ==
    /\ call.op = "mset" /\ call.kind = "native"
    /\ store' = WriteAll(store, items)
    /\ call' = [call EXCEPT !.kind = "done"]
    /\ mstatus' = "resolved"
    /\ last' = [NoCall EXCEPT !.op = "mset", !.fac = call.fac, !.res = Hit(1), !.at = now]
    /\ UNCHANGED <<opts, pending, now, hist, items, conc, workers, cursor, results, mout, merr>>

\* The store with every logical key written with no ttl argument.
FullStore(o) ==
    CHOOSE s \in PreparedStores(o, Keys) :
        \A k \in Keys :
            MapGet(s, _getKeyPrefix(o, k)) = _setPreprocess(o, KeyValue(k), Undef, WrittenAt)

\* A facade with or without a default ttl, with or without a default
\* concurrency, over an empty or a written store.
InitMset ==
    /\ opts \in {<<Opts(<<"a">>, d, c)>> : d \in {Undef, Num(DefaultTtl)}, c \in {Undef, Num(1)}}
    /\ store \in {MapClear(<<>>), FullStore(opts[1])}
    /\ now = MaxNow - 1
    /\ pending = NoPending
    /\ last = NoCall
    /\ hist = MapClear(<<>>)
    /\ MapIdle

NextMset ==
    \/ \E shape \in {"seq", "map"}, keys \in SeqsUpTo(Keys, MaxItems), native \in BOOLEAN :
          \E a \in MsetTtlArgs(shape) : \E b \in MsetOptsArgs(a) :
             MsetCall(1, shape, keys, a, b, native)
    \/ \E w \in DOMAIN workers : WorkerCall(w)
    \/ \E w \in DOMAIN workers : WriteSettle(w)
    \/ MsetResolve
    \/ NativeMsetDone

SpecMset == InitMset /\ [][NextMset]_vars

\* ------------------------------------------------------------- single calls, step by step
\* Caller c awaits no call, and no batch call has been made.
Free(c) == pending[c].st \in {"idle", "resolved", "rejected"} /\ call = NoBatch

\* The physical key of the call caller c awaits.
SlotKey(c) == _getKeyPrefix(opts[pending[c].fac], pending[c].key)

\* Another caller's get of physical key pk has been issued and not settled.
GetInFlightOn(c, pk) ==
    \E d \in Callers \ {c} :
        pending[d].op = "get" /\ pending[d].st \in {"read", "post", "del"} /\ SlotKey(d) = pk

\* The call of caller c resolves to res.
Resolved(c, res) == [pending EXCEPT ![c].st = "resolved", ![c].res = res]

\* get(key, opts) is called: store.get(keyPrefixed) is issued.
GetCall(c, f, k, raw) ==
    /\ Free(c)
    /\ pending' = [pending EXCEPT ![c] =
                      [NoSlot EXCEPT !.op = "get", !.st = "read", !.fac = f, !.key = k,
                                     !.raw = raw, !.at = now,
                                     !.ops = Issue(NoOps, <<"get", 0>>)]]
    /\ UNCHANGED <<opts, store, now, last, hist, mapVars>>

\* store.get resolves with what the adapter holds.
GetRead(c) ==
    /\ pending[c].op = "get" /\ pending[c].st = "read"
    /\ pending' = [pending EXCEPT ![c].st = "post", ![c].data = MapGet(store, SlotKey(c))]
    /\ UNCHANGED <<opts, store, now, last, hist, mapVars>>

\* _getPostprocess reads the clock: an absent or live entry resolves the get,
\* an expired one makes it issue this.delete(key).
GetPost(c) ==
    /\ pending[c].op = "get" /\ pending[c].st = "post"
    /\ IF PostDeletes(pending[c].data, now)
       THEN /\ pending' = [pending EXCEPT ![c].st = "del", ![c].at = now,
                                           ![c].ops = Issue(@, <<"delete", 0>>)]
            /\ last' = last
       ELSE /\ pending' = [Resolved(c, PostResult(pending[c].data, pending[c].raw, now))
                              EXCEPT ![c].at = now]
            /\ last' = [NoCall EXCEPT !.op = "get", !.fac = pending[c].fac,
                                      !.key = pending[c].key, !.raw = pending[c].raw,
                                      !.found = pending[c].data,
                                      !.res = PostResult(pending[c].data, pending[c].raw, now),
                                      !.at = now]
    /\ UNCHANGED <<opts, store, now, hist, mapVars>>

\* The delete of the expired entry resolves: the get resolves to undefined.
GetDeleteDone(c) ==
    /\ pending[c].op = "get" /\ pending[c].st = "del"
    /\ store' = MapDelete(store, SlotKey(c))
    /\ pending' = Resolved(c, Miss)
    /\ last' = [NoCall EXCEPT !.op = "get", !.fac = pending[c].fac, !.key = pending[c].key,
                              !.raw = pending[c].raw, !.found = pending[c].data,
                              !.res = Miss, !.dels = {SlotKey(c)}, !.at = pending[c].at]
    /\ UNCHANGED <<opts, now, hist, mapVars>>

\* set(key, value, ttl) is called: the value is encoded at the clock value
\* of the call and store.set is issued.  race: a get of the same physical
\* key by another caller is in flight.
SetCall(c, f, k, v, ttl) ==
    /\ Free(c)
    /\ pending' = [pending EXCEPT ![c] =
                      [NoSlot EXCEPT !.op = "set", !.st = "write", !.fac = f, !.key = k,
                                     !.val = v, !.ttl = ttl, !.at = now,
                                     !.data = _setPreprocess(opts[f], v, ttl, now),
                                     !.race = GetInFlightOn(c, _getKeyPrefix(opts[f], k)),
                                     !.ops = Issue(NoOps, <<"set", 0>>)]]
    /\ UNCHANGED <<opts, store, now, last, hist, mapVars>>

\* store.set resolves: the set resolves to true.  race stays true when that
\* get is still in flight.
SetWrite(c) ==
    /\ pending[c].op = "set" /\ pending[c].st = "write"
    /\ store' = MapSet(store, SlotKey(c), pending[c].data)
    /\ hist' = MapSet(hist, SlotKey(c), Written(pending[c].val, pending[c].ttl))
    /\ pending' = [Resolved(c, Hit(1)) EXCEPT
                      ![c].race = @ /\ GetInFlightOn(c, SlotKey(c))]
    /\ last' = [NoCall EXCEPT !.op = "set", !.fac = pending[c].fac, !.key = pending[c].key,
                              !.val = pending[c].val, !.ttl = pending[c].ttl,
                              !.res = Hit(1), !.at = pending[c].at]
    /\ UNCHANGED <<opts, now, mapVars>>

\* delete(key) is called: store.delete(keyPrefixed) is issued.
DeleteCall(c, f, k) ==
    /\ Free(c)
    /\ pending' = [pending EXCEPT ![c] =
                      [NoSlot EXCEPT !.op = "delete", !.st = "delete", !.fac = f, !.key = k,
                                     !.at = now, !.ops = Issue(NoOps, <<"delete", 0>>)]]
    /\ UNCHANGED <<opts, store, now, last, hist, mapVars>>

\* store.delete resolves to whether it removed a key: so does the delete.
DeleteDone(c) ==
    /\ pending[c].op = "delete" /\ pending[c].st = "delete"
    /\ store' = MapDelete(store, SlotKey(c))
    /\ hist' = IF MapHas(hist, SlotKey(c)) /\ hist[SlotKey(c)].op = "set"
               THEN MapSet(hist, SlotKey(c), Removed("delete")) ELSE hist
    /\ pending' = Resolved(c, Hit(IF MapHas(store, SlotKey(c)) THEN 1 ELSE 0))
    /\ last' = [NoCall EXCEPT !.op = "delete", !.fac = pending[c].fac,
                              !.key = pending[c].key,
                              !.res = Hit(IF MapHas(store, SlotKey(c)) THEN 1 ELSE 0),
                              !.dels = {SlotKey(c)}, !.at = now]
    /\ UNCHANGED <<opts, now, mapVars>>

\* clear() is called: store.clear() is issued.
ClearCall(c, f) ==
    /\ Free(c)
    /\ pending' = [pending EXCEPT ![c] =
                      [NoSlot EXCEPT !.op = "clear", !.st = "clear", !.fac = f, !.at = now,
                                     !.ops = Issue(NoOps, <<"clear", 0>>)]]
    /\ UNCHANGED <<opts, store, now, last, hist, mapVars>>

\* store.clear resolves: so does the clear.
ClearDone(c) ==
    /\ pending[c].op = "clear" /\ pending[c].st = "clear"
    /\ store' = MapClear(store)
    /\ hist' = [q \in DOMAIN hist |-> Removed("clear")]
    /\ pending' = Resolved(c, Miss)
    /\ last' = [NoCall EXCEPT !.op = "clear", !.fac = pending[c].fac, !.at = now]
    /\ UNCHANGED <<opts, now, mapVars>>

\* The adapter operation a call awaits at step st.
AdapterOp(st) ==
    CASE st = "read" -> "get"
      [] st = "write" -> "set"
      [] st = "clear" -> "clear"
      [] OTHER -> "delete"

\* The adapter operation the call of caller c awaits rejects: no handler
\* catches it, the call rejects with the adapter's reason.
CallFail(c) ==
    /\ pending[c].st \in {"read", "del", "write", "delete", "clear"}
    /\ pending' = [pending EXCEPT ![c].st = "rejected",
                                   ![c].err = AdapterError(AdapterOp(pending[c].st), SlotKey(c))]
    /\ UNCHANGED <<opts, store, now, last, hist, mapVars>>

\* A facade over a store it has written, one tick before the expiring
\* entries expire; no call made yet.
InitRace ==
    /\ opts = <<Opts(<<"a">>, Undef, Undef)>>
    /\ pending = NoPending
    /\ store \in PreparedStores(opts[1], Keys)
    /\ now = MaxNow - 1
    /\ last = NoCall
    /\ hist = MapClear(<<>>)
    /\ MapIdle

\* One caller reads while the other writes, their adapter steps interleaved
\* in every order.
NextRace ==
    \/ \E k \in Keys : GetCall("reader", 1, k, FALSE)
    \/ GetRead("reader")
    \/ GetPost("reader")
    \/ GetDeleteDone("reader")
    \/ \E k \in Keys, ttl \in {Undef, Num(MaxTtl)} : SetCall("writer", 1, k, MaxVal, ttl)
    \/ SetWrite("writer")
    \/ Tick

SpecRace == InitRace /\ [][NextRace]_vars

\* ------------------------------------------------------------- rejecting adapters
\* store.get(pk) of async function w rejects.
ReadFail(w) ==
    /\ call.kind = "read"
    /\ workers[w].st = "run"
    /\ Reject(w)
    /\ UNCHANGED <<facadeVars, items, conc, cursor, results, mout>>

\* store.set(key, value, ttl) of async function w rejects.
WriteFail(w) ==
    /\ call.kind = "write"
    /\ workers[w].st = "run"
    /\ Reject(w)
    /\ UNCHANGED <<facadeVars, items, conc, cursor, results, mout>>

\* The delete of an expired key rejects: _getPostprocess of async function w
\* throws.
PostDeleteFail(w) ==
    /\ call.kind = "post"
    /\ workers[w].st = "del"
    /\ Reject(w)
    /\ UNCHANGED <<facadeVars, items, conc, cursor, results, mout>>

\* store.mget or store.mset rejects: the batch call rejects.
NativeFail ==
    /\ call.kind = "native"
    /\ call' = [call EXCEPT !.kind = "done", !.fails = Append(@, 0)]
    /\ mstatus' = "rejected"
    /\ merr' = FirstError("pending", merr, 0)
    /\ UNCHANGED <<facadeVars, items, conc, workers, cursor, results, mout>>

\* The store with every logical key written with ttl MaxTtl.
ExpiringStore(o) ==
    CHOOSE s \in PreparedStores(o, Keys) :
        \A k \in Keys :
            MapGet(s, _getKeyPrefix(o, k)) = _setPreprocess(o, KeyValue(k), Num(MaxTtl), WrittenAt)

\* A facade with or without a default concurrency over an empty store or one
\* whose entries are live and expire a tick later; no call made yet.
InitFail ==
    /\ opts \in {<<Opts(<<"a">>, Undef, c)>> : c \in {Undef, Num(2)}}
    /\ pending = NoPending
    /\ store \in {MapClear(<<>>), ExpiringStore(opts[1])}
    /\ now = MaxNow - 1
    /\ last = NoCall
    /\ hist = MapClear(<<>>)
    /\ MapIdle

\* One caller issuing single-key calls one after the other, or one batch
\* call on the store as written; every adapter operation may reject.  The
\* clock advances between and during the single-key calls and before the
\* batch call.
NextFail ==
    \/ \E k \in Keys : GetCall("reader", 1, k, FALSE)
    \/ GetRead("reader")
    \/ GetPost("reader")
    \/ GetDeleteDone("reader")
    \/ \E k \in Keys, ttl \in {Undef, Num(MaxTtl)} : SetCall("reader", 1, k, MaxVal, ttl)
    \/ SetWrite("reader")
    \/ \E k \in Keys : DeleteCall("reader", 1, k)
    \/ DeleteDone("reader")
    \/ ClearCall("reader", 1)
    \/ ClearDone("reader")
    \/ CallFail("reader")
    \/ \E keys \in SeqsUpTo(Keys, MaxItems), native \in BOOLEAN :
          pending = NoPending /\ MgetCall(1, keys, FALSE, Undef, native)
    \/ \E keys \in SeqsUpTo(Keys, MaxItems), native \in BOOLEAN :
          pending = NoPending /\ MsetCall(1, "seq", keys, Undef, Undef, native)
    \/ \E w \in DOMAIN workers : WorkerCall(w)
    \/ \E w \in DOMAIN workers : ReadSettle(w)
    \/ \E w \in DOMAIN workers : ReadFail(w)
    \/ ReadsDone
    \/ NativeMgetDone
    \/ \E w \in DOMAIN workers : PostCheck(w)
    \/ \E w \in DOMAIN workers : PostDeleted(w)
    \/ \E w \in DOMAIN workers : PostDeleteFail(w)
    \/ MgetResolve
    \/ \E w \in DOMAIN workers : WriteSettle(w)
    \/ \E w \in DOMAIN workers : WriteFail(w)
    \/ MsetResolve
    \/ NativeMsetDone
    \/ NativeFail
    \/ call = NoBatch /\ Tick

SpecFail == InitFail /\ [][NextFail]_vars

\* ------------------------------------------------------------- hanging adapters
\* The transform (or the cleanup delete) async function w awaits never settles.
Hang(w) ==
    /\ workers[w].st \in {"run", "del"}
    /\ workers' = [workers EXCEPT ![w].st = "hung"]
    /\ UNCHANGED <<facadeVars, call, items, conc, cursor, results, mstatus, mout, merr>>

\* store.mget or store.mset never settles.
NativeHang ==
    /\ call.kind = "native"
    /\ call' = [call EXCEPT !.kind = "hung"]
    /\ UNCHANGED <<facadeVars, items, conc, workers, cursor, results, mstatus, mout, merr>>

\* A plain map just called, or a facade with or without a default
\* concurrency over an empty store or one whose entries have all expired, no
\* call made yet.
InitLive ==
    \/ InitMap
    \/ /\ opts \in {<<Opts(<<"a">>, Undef, c)>> : c \in {Undef, Num(2)}}
       /\ pending = NoPending
       /\ store \in {MapClear(<<>>), ExpiringStore(opts[1])}
       /\ now = MaxNow
       /\ last = NoCall
       /\ hist = MapClear(<<>>)
       /\ MapIdle

\* What the event loop does when nothing fails: call a transform whose item
\* is ready, deliver a settled result, continue the chain.
Progress ==
    \/ \E w \in DOMAIN workers : WorkerCall(w)
    \/ \E w \in DOMAIN workers : MapSettle(w)
    \/ MapResolve
    \/ \E w \in DOMAIN workers : ReadSettle(w)
    \/ ReadsDone
    \/ NativeMgetDone
    \/ \E w \in DOMAIN workers : PostCheck(w)
    \/ \E w \in DOMAIN workers : PostDeleted(w)
    \/ MgetResolve
    \/ \E w \in DOMAIN workers : WriteSettle(w)
    \/ MsetResolve
    \/ NativeMsetDone

NextLive ==
    \/ Progress
    \/ \E keys \in SeqsUpTo(Keys, MaxItems), native \in BOOLEAN :
          MgetCall(1, keys, FALSE, Undef, native)
    \/ \E keys \in SeqsUpTo(Keys, MaxItems), native \in BOOLEAN :
          MsetCall(1, "seq", keys, Undef, Undef, native)
    \/ \E w \in DOMAIN workers : Hang(w)
    \/ NativeHang

\* Every transform and adapter call that has not hung settles, and the event
\* loop runs whatever is ready.
SpecLive == InitLive /\ [][NextLive]_vars /\ WF_vars(Progress)

\* ------------------------------------------------------------- claims
\* The physical key the last call addressed.
LastKey == _getKeyPrefix(opts[last.fac], last.key)

\* C1: a get(k) issued right after set(k, v) resolved, with no time elapsed
\* and no call in between, resolves to v (the entry holding v in raw mode).
C1_RoundTrip ==
    (last.op = "get" /\ last.after = "set") =>
        /\ last.res.kind = (IF last.raw THEN "entry" ELSE "value")
        /\ last.res.value = last.val

C1_Witness ==
    /\ last.op = "get" /\ last.after = "set" /\ ~last.raw
    /\ last.res = Hit(MaxVal)
    /\ opts[1].ttl = Num(DefaultTtl)

\* C2: a get that finds an entry whose numeric expires is below the clock
\* resolves to a miss, and the adapter has deleted the physical key by then;
\* with the clock at or below expires the get is a hit.
C2_LazyExpiration ==
    (last.op = "get" /\ last.found # Undef /\ Decode(last.found).expires.t = "number") =>
        IF last.at > Decode(last.found).expires.n
        THEN /\ last.res = Miss
             /\ last.dels = {LastKey}
             /\ ~MapHas(store, LastKey)
        ELSE /\ last.res.kind # "undefined"
             /\ last.res.value = Decode(last.found).value
             /\ last.dels = {}
             /\ MapGet(store, LastKey) = last.found

C2_Witness ==
    /\ last.op = "get" /\ last.found # Undef
    /\ Decode(last.found).expires.t = "number"
    /\ last.at > Decode(last.found).expires.n
    /\ last.res = Miss /\ ~MapHas(store, LastKey)

\* C3: on a facade with a default ttl, an entry written with ttl = 0 has
\* expires = null and get returns its value at every later clock value, until
\* the key is set again, deleted or cleared.
C3_ZeroTtlNeverExpires ==
    \A f \in DOMAIN opts, k \in Keys :
        LET pk == _getKeyPrefix(opts[f], k)
        IN (MapHas(hist, pk) /\ hist[pk].op = "set" /\ hist[pk].ttl = Num(0)) =>
              /\ MapHas(store, pk)
              /\ Decode(store[pk]).expires = Null
              /\ PostResult(store[pk], FALSE, now) = Hit(hist[pk].val)

C3_Witness ==
    /\ opts[1].ttl = Num(DefaultTtl)
    /\ last.op = "get" /\ last.at = MaxNow /\ last.res = Hit(1)
    /\ MapHas(hist, LastKey) /\ hist[LastKey] = Written(1, Num(0))

\* C10: after clear() resolved, a get of a key that was set before the clear
\* and not set again since resolves to a miss.
C10_ClearThenMiss ==
    (last.op = "get" /\ MapHas(hist, LastKey) /\ hist[LastKey].op = "clear") =>
        last.res = Miss

C10_Witness ==
    /\ last.op = "get" /\ MapHas(hist, LastKey) /\ hist[LastKey].op = "clear"
    /\ last.res = Miss /\ last.after = "none"

\* A string without the separator.
NoSeparator(str) == \A i \in 1..Len(str) : str[i] # ":"

\* What get(k, {raw: true}) through facade f resolves to on store s.
Visible(s, f, k) == PostResult(MapGet(s, _getKeyPrefix(opts[f], k)), TRUE, now)

\* C7 as stated: a set or delete through one facade never changes what a get
\* through a facade with another namespace returns, for all namespaces.
C7_IsolationAnyNamespace ==
    [][\A f1 \in DOMAIN opts, f2 \in DOMAIN opts, k2 \in Keys :
          (/\ last'.op \in {"set", "delete"} /\ last'.fac = f1
           /\ opts[f1].namespace # opts[f2].namespace)
          => Visible(store', f2, k2) = Visible(store, f2, k2)]_vars

\* C7 amended: a set or delete through one facade never changes what a get
\* through a facade with another namespace returns, when neither namespace
\* contains the separator ":".
C7_IsolationNoSeparator ==
    [][\A f1 \in DOMAIN opts, f2 \in DOMAIN opts, k2 \in Keys :
          (/\ last'.op \in {"set", "delete"} /\ last'.fac = f1
           /\ opts[f1].namespace # opts[f2].namespace
           /\ NoSeparator(opts[f1].namespace) /\ NoSeparator(opts[f2].namespace))
          => Visible(store', f2, k2) = Visible(store, f2, k2)]_vars

\* Facade "a" has just set logical key "x" while facade "b" holds another
\* value under the same logical key.
C7_Witness ==
    /\ last.op = "set" /\ opts[last.fac].namespace = <<"a">> /\ last.key = <<"x">>
    /\ \E f2 \in DOMAIN opts :
          /\ opts[f2].namespace = <<"b">>
          /\ Visible(store, f2, <<"x">>).kind = "entry"
          /\ Visible(store, f2, <<"x">>).value # last.val

\* The transforms called and not yet settled.
InFlight == {w \in DOMAIN workers : workers[w].st \in {"run", "del"}}

\* C8: when every transform succeeds, the mapper resolves, for every
\* concurrency (bounded or not) and every completion order, to the sequence of
\* the input's length whose element i is func(items[i], i): bounded and
\* unbounded mode resolve to the same sequence.
C8_MapperModesAgree ==
    mstatus = "resolved" =>
        /\ Len(mout) = Len(items)
        /\ \A i \in 1..Len(items) : mout[i] = func(items[i], i - 1)

\* A bounded map with fewer workers than items resolved although a later
\* index was pushed first.
C8_Witness ==
    /\ mstatus = "resolved" /\ Bounded(conc) /\ conc.n = 2 /\ Len(items) = 3
    /\ results[1].idx # 0
    /\ mout = <<func(items[1], 0), func(items[2], 1), func(items[3], 2)>>

\* C9: in bounded mode exactly min(N, itemCount) worker loops are started and
\* at most min(N, itemCount) transforms are in flight at any moment.
C9_BoundedInFlight ==
    Bounded(conc) =>
        /\ Len(workers) = Min(conc.n, Len(items))
        /\ Cardinality(InFlight) <= Min(conc.n, Len(items))

\* Two of three items are in flight under concurrency 2, the third is not
\* yet taken.
C9_Witness ==
    /\ Bounded(conc) /\ conc.n = 2 /\ Len(items) = 3
    /\ Cardinality(InFlight) = 2 /\ cursor = 2

\* What _getPostprocess can make of the entry the store held for logical key
\* k when the batch call was made, at the clock values the call has seen.
ResultsFor(k) ==
    {PostResult(MapGet(call.store0, _getKeyPrefix(opts[call.fac], k)), call.raw, t) :
        t \in call.at..now}

\* C5: mget(keys) resolves to a sequence as long as keys whose element i is
\* the result for keys[i], on the native and on the per-key path, for every
\* concurrency and every order in which reads and expiry deletes complete.
C5_MgetOrder ==
    (call.op = "mget" /\ mstatus = "resolved") =>
        /\ Len(mout) = Len(call.keys)
        /\ \A i \in 1..Len(call.keys) : mout[i] \in ResultsFor(call.keys[i])

\* A per-key mget of three keys under concurrency 2 resolved to different
\* results for its first two keys although a later index settled first.
C5_Witness ==
    /\ call.op = "mget" /\ mstatus = "resolved" /\ ~call.native
    /\ Len(call.keys) = 3 /\ conc = Num(2)
    /\ results[1].idx # 0
    /\ mout[1] # mout[2] /\ mout[1] # Miss /\ mout[2] # Miss

\* The expiry the ttl rule gives a write at clock time t: the ttl argument if
\* given, else the facade's default; clock + ttl for a non-zero number, else
\* null.
RuleExpires(ttl, o, t) ==
    LET used == IF ttl = Undef THEN o.ttl ELSE ttl
    IN IF used.t = "number" /\ used.n # 0 THEN Num(t + used.n) ELSE Null

\* The ttl and the opts an mset call gives, whatever its shape: a mapping
\* followed by an options object gives opts and no ttl.
GivenTtl == IF call.shape = "map" /\ call.a.t = "object" THEN Undef ELSE call.a
GivenOpts == IF call.shape = "map" /\ call.a.t = "object" THEN call.a ELSE call.b

\* The physical key of position i of the batch call.
BatchKey(i) == _getKeyPrefix(opts[call.fac], call.keys[i])

\* C4: every write resolves its ttl as the argument if provided, else the
\* facade's default, and stores expires = clock at write + ttl for a non-zero
\* number, else null: after set, and for each pair of a resolved mset; a raw
\* get of the entry while it is live returns that {value, expires}.
C4_TtlResolution ==
    /\ last.op = "set" =>
          LET want == [value |-> last.val,
                       expires |-> RuleExpires(last.ttl, opts[last.fac], last.at)]
          IN /\ MapGet(store, LastKey) = serialize(want)
             /\ ~IsExpired(want, now) => PostResult(MapGet(store, LastKey), TRUE, now) = RawHit(want)
    /\ (call.op = "mset" /\ mstatus = "resolved") =>
          \A i \in 1..Len(call.keys) :
             LET got == PostResult(MapGet(store, BatchKey(i)), TRUE, call.at)
             IN /\ got.kind = "entry"
                /\ got.expires = RuleExpires(GivenTtl, opts[call.fac], call.at)
                /\ \E j \in 1..Len(call.keys) :
                      call.keys[j] = call.keys[i] /\ got.value = call.vals[j]

\* C6: an mset given a mapping leaves the store as the parallel-sequences
\* call with the same keys, values, ttl and opts leaves it, from the same
\* store at the same clock value.
C6_MsetShapesAgree ==
    (call.op = "mset" /\ call.shape = "map" /\ mstatus = "resolved") =>
        store = MsetOutcome(opts[call.fac], call.store0, call.at, "seq",
                            call.keys, call.vals, GivenTtl, GivenOpts)

\* C11: delete(k) resolves to true exactly when the store held an entry
\* (live or expired) under k's physical key, and that entry is removed; no
\* other key's entry changes; and a get of a key whose last change by a
\* caller is a delete resolves to a miss.
C11_Delete ==
    /\ [][(last'.op = "delete" /\ now' = now) =>
             LET pk == _getKeyPrefix(opts[last'.fac], last'.key)
             IN /\ (last'.res = Hit(1)) = MapHas(store, pk)
                /\ last'.res \in {Hit(0), Hit(1)}
                /\ ~MapHas(store', pk)
                /\ \A q \in (DOMAIN store \cup DOMAIN store') \ {pk} :
                       MapHas(store, q) /\ MapHas(store', q) /\ store'[q] = store[q]]_vars
    /\ [](\A pk \in DOMAIN hist : hist[pk].op = "delete" => ~MapHas(store, pk))
    /\ []((last.op = "get" /\ MapHas(hist, LastKey) /\ hist[LastKey].op = "delete")
            => last.res = Miss)

\* A delete at the last clock value returned true and left the other key's
\* entry in the store.
C11_Witness ==
    /\ last.op = "delete" /\ last.res = Hit(1) /\ last.at = MaxNow
    /\ MapHas(hist, LastKey) /\ hist[LastKey].op = "delete"
    /\ \E q \in DOMAIN store : q # LastKey

\* C13: when a get(k) that found an expired entry and a set(k, v2) with a live
\* ttl, issued and resolved while that get was in flight, have both resolved,
\* the store holds the entry of v2 under k.
C13_NoLostWrite ==
    \A r \in Callers, w \in Callers :
        (/\ pending[r].op = "get" /\ pending[r].st = "resolved"
         /\ PostDeletes(pending[r].data, pending[r].at)
         /\ pending[w].op = "set" /\ pending[w].st = "resolved" /\ pending[w].race
         /\ SlotKey(w) = SlotKey(r)
         /\ IsExpired(Decode(pending[r].data), pending[w].at)
         /\ ~IsExpired(Decode(pending[w].data), now))
        => MapGet(store, SlotKey(w)) = pending[w].data

\* The steps at which a single-key call awaits an adapter operation.
AwaitingAdapter == {"read", "del", "write", "delete", "clear"}

\* C12: a rejecting adapter operation (store.get, set, delete, clear, mget,
\* mset, the delete of expiry cleanup included) rejects the facade call that
\* issued it with the adapter's reason, and the call never resolves
\* afterwards; no call issues an adapter operation twice for one position of
\* its input; a batch call rejects with the first failure that occurred.
C12_FailurePropagation ==
    /\ [][\A c \in Callers :
             /\ (pending[c].st # "rejected" /\ pending'[c].st = "rejected") =>
                    /\ pending[c].st \in AwaitingAdapter
                    /\ pending'[c].err = AdapterError(AdapterOp(pending[c].st), SlotKey(c))
                    /\ pending'[c].ops = pending[c].ops
                    /\ store' = store /\ last' = last
             /\ pending[c].st = "rejected" =>
                    pending'[c].st \in {"rejected", "read", "write", "delete", "clear"}]_vars
    /\ [][mstatus = "rejected" => (mstatus' = "rejected" /\ mout' = <<>> /\ merr' = merr)]_vars
    /\ [](\A c \in Callers : \A q \in DOMAIN pending[c].ops : pending[c].ops[q] <= 1)
    /\ [](\A q \in DOMAIN call.ops : call.ops[q] <= 1)
    /\ [](call.fails # <<>> =>
             /\ mstatus = "rejected"
             /\ merr = Head(call.fails)
             /\ mout = <<>>
             /\ last.op \notin {"mget", "mset"})

\* An mget rejected although a read of it succeeded: two cleanup deletes
\* failed, the one of the later key first, and that one is reported.
C12_Witness ==
    /\ call.op = "mget" /\ call.kind = "post" /\ mstatus = "rejected"
    /\ Len(call.fails) = 2 /\ call.fails[1] > call.fails[2]
    /\ merr = call.fails[1]
    /\ \E q \in DOMAIN call.ops : q[1] = "get"

\* C14: in bounded mode a failing transform rejects the map and the batch call
\* built on it and ends only its own worker loop: that loop claims nothing
\* more, every other loop stays able to call and settle its transform, and on
\* settling claims the next unclaimed item while one is left, the batch call
\* having rejected or not.
C14_PartialFailure ==
    /\ [][Len(call'.fails) > Len(call.fails) =>
             /\ mstatus' = "rejected"
             /\ cursor' = cursor /\ store' = store
             /\ \/ call.kind = "native"
                \/ \E w \in DOMAIN workers :
                      /\ workers[w].st \in {"run", "del"}
                      /\ workers' = [workers EXCEPT ![w].st = "failed"]]_vars
    /\ [][\A w \in DOMAIN workers :
             (Bounded(conc) /\ mstatus = "rejected" /\ w \in DOMAIN workers') =>
                /\ workers[w].st = "failed" => workers'[w] = workers[w]
                /\ (workers[w].st \in {"run", "del"} /\ workers'[w].st \in {"await", "done"}) =>
                       IF cursor < Len(items)
                       THEN workers'[w] = Worker("await", cursor) /\ cursor' = cursor + 1
                       ELSE workers'[w].st = "done" /\ cursor' = cursor]_vars
    /\ [](\A w \in DOMAIN workers :
             (Bounded(conc) /\ mstatus = "rejected") =>
                /\ workers[w].st = "await" => ENABLED WorkerCall(w)
                /\ (workers[w].st = "run" /\ call.kind = "write") => ENABLED WriteSettle(w)
                /\ (workers[w].st = "run" /\ call.kind = "read") => ENABLED ReadSettle(w))

\* An mset under concurrency 2 rejected on its first pair; afterwards the
\* third pair was claimed, its store.set issued and applied to the adapter.
C14_Witness ==
    /\ call.op = "mset" /\ call.kind = "write" /\ Bounded(conc) /\ conc.n = 2
    /\ mstatus = "rejected" /\ merr = 0
    /\ 2 \in call.late
    /\ ~MapHas(call.store0, items[3][1])
    /\ MapGet(store, items[3][1]) = items[3][2]

\* The worker loops holding index i, and the results pushed for it.
ClaimedBy(i) ==
    {w \in DOMAIN workers : workers[w].idx = i /\ workers[w].st \in {"await", "run", "del", "failed"}}
Pushed(i) == {j \in 1..Len(results) : results[j].idx = i}

\* C15: in bounded mode every index the shared iterator has yielded is held by
\* exactly one worker loop or has exactly one result pushed, and no index
\* beyond it is held; the transform is called at most once per index, and
\* exactly once for every index when the map resolves; a worker loop takes
\* another item only in the step in which its transform settles.
C15_ExactlyOnce ==
    /\ [](Bounded(conc) =>
             /\ cursor <= Len(items)
             /\ \A i \in 0..(Len(items) - 1) :
                   /\ Cardinality(ClaimedBy(i)) + Cardinality(Pushed(i))
                         = (IF i < cursor THEN 1 ELSE 0)
                   /\ <<"func", i>> \in DOMAIN call.ops => call.ops[<<"func", i>>] = 1
             /\ mstatus = "resolved" =>
                   \A i \in 0..(Len(items) - 1) : <<"func", i>> \in DOMAIN call.ops)
    /\ [][\A w \in DOMAIN workers :
             (Bounded(conc) /\ workers'[w].idx # workers[w].idx) =>
                /\ workers[w].st = "run" /\ workers'[w].st = "await"
                /\ workers'[w].idx = cursor /\ cursor' = cursor + 1
                /\ results' = Append(results, [idx |-> workers[w].idx,
                                               result |-> func(items[workers[w].idx + 1],
                                                               workers[w].idx)])]_vars

\* Three items under concurrency 2 resolved: the loop that started on item 0
\* ended on item 2, the other on item 1.
C15_Witness ==
    /\ Bounded(conc) /\ conc.n = 2 /\ Len(items) = 3 /\ mstatus = "resolved"
    /\ workers[1].idx = 2 /\ workers[2].idx = 1
    /\ \A i \in 0..2 : call.ops[<<"func", i>>] = 1

\* Stored form data is an entry that has expired at clock value t.
Stale(data, t) == data # Undef /\ IsExpired(Decode(data), t)

\* The step is the cleanup delete of a get or of an mget for physical key pk,
\* after a read that found an expired entry under it.
CleanupOf(pk) ==
    \/ \E c \in Callers :
          /\ pending[c].op = "get" /\ pending[c].st = "del" /\ pending'[c].st = "resolved"
          /\ SlotKey(c) = pk /\ Stale(pending[c].data, pending[c].at)
    \/ \E w \in DOMAIN workers :
          /\ call.op = "mget" /\ workers[w].st = "del" /\ workers'[w].st # "del"
          /\ _getKeyPrefix(opts[call.fac], items[workers[w].idx + 1][1]) = pk
          /\ Stale(items[workers[w].idx + 1][2], now)

\* The step applies a caller's set, mset, delete or clear to physical key pk.
OverwriteOf(pk) ==
    \/ \E c \in Callers :
          /\ pending[c].st \in {"write", "delete", "clear"} /\ pending'[c].st = "resolved"
          /\ (pending[c].op = "clear" \/ SlotKey(c) = pk)
    \/ /\ call.op = "mset"
       /\ \E i \in 1..Len(items) : items[i][1] = pk

\* C16: a step of a get or of an mget changes the store only when it is the
\* cleanup delete after a read that found an expired entry, and then it removes
\* that entry's physical key and nothing else; and an expired entry stays in
\* the store as it is over every step that is not the cleanup of a read of
\* it, nor a set, mset, delete or clear applied to it: clock ticks and calls
\* on other keys purge nothing.
C16_ReadFrame ==
    /\ [][(\/ \E c \in Callers : (pending'[c].op = "get" /\ pending'[c] # pending[c])
            \/ (call'.op = "mget" /\ (call' # call \/ workers' # workers))) =>
             \/ store' = store
             \/ \E pk \in DOMAIN store : (CleanupOf(pk) /\ store' = MapDelete(store, pk))]_vars
    /\ [][\A pk \in DOMAIN store :
             (Stale(store[pk], now) /\ (~MapHas(store', pk) \/ store'[pk] # store[pk])) =>
                CleanupOf(pk) \/ OverwriteOf(pk)]_vars

\* A get found its key expired and removed it, while the other key's entry,
\* expired as well and not read, is still in the store.
C16_Witness ==
    /\ last.op = "get" /\ last.dels = {LastKey} /\ Stale(last.found, last.at)
    /\ ~MapHas(store, LastKey)
    /\ \E q \in DOMAIN store : Stale(store[q], now)

\* get(keys[1]), get(keys[2]), ... through facade o, one after the other at
\* clock value t from store s: the results and the store left.
RECURSIVE GetEach(_, _, _, _, _)
GetEach(o, s, keys, raw, t) ==
    IF keys = <<>> THEN [out |-> <<>>, store |-> s]
    ELSE LET pk == _getKeyPrefix(o, Head(keys))
             data == MapGet(s, pk)
             rest == GetEach(o, IF PostDeletes(data, t) THEN MapDelete(s, pk) ELSE s,
                             Tail(keys), raw, t)
         IN [out |-> <<PostResult(data, raw, t)>> \o rest.out, store |-> rest.store]

\* C17: an mget that ran at one clock value with no other call resolves to
\* what get(keys[1]), get(keys[2]), ... resolve to one after the other from
\* the same store at that clock value, and leaves the store they leave, for
\* repeated and expired keys, raw or not, natively or per key, and every
\* concurrency.
C17_MgetAgreesWithGet ==
    (call.op = "mget" /\ mstatus = "resolved" /\ call.at = now) =>
        LET gets == GetEach(opts[call.fac], call.store0, call.keys, call.raw, call.at)
        IN mout = gets.out /\ store = gets.store

\* A per-key mget under concurrency 2 of an expired key given twice and a
\* live key: two misses and a hit, the expired entry gone.
C17_Witness ==
    /\ call.op = "mget" /\ mstatus = "resolved" /\ call.at = now /\ ~call.native
    /\ conc = Num(2) /\ Len(call.keys) = 3 /\ call.keys[1] = call.keys[2]
    /\ Stale(MapGet(call.store0, _getKeyPrefix(opts[call.fac], call.keys[1])), call.at)
    /\ mout[1] = Miss /\ mout[2] = Miss /\ mout[3] # Miss
    /\ ~MapHas(store, _getKeyPrefix(opts[call.fac], call.keys[1]))

\* C18: when mset(keys, values, ttl) with pairwise distinct keys has resolved
\* (to true), on the native and on the per-key path and for every
\* concurrency, the adapter holds every pair: get(keys[i]) returns values[i],
\* each entry's expires is the one the ttl rule gives the ttl argument at the
\* clock value of the call, and every physical key not listed holds what it
\* held before the call.
C18_MsetComplete ==
    (call.op = "mset" /\ call.shape = "seq" /\ Distinct(call.keys) /\ mstatus = "resolved") =>
        /\ last.op = "mset" /\ last.res = Hit(1)
        /\ \A i \in 1..Len(call.keys) :
              /\ PostResult(MapGet(store, BatchKey(i)), FALSE, now) = Hit(call.vals[i])
              /\ PostResult(MapGet(store, BatchKey(i)), TRUE, now).expires
                    = RuleExpires(call.a, opts[call.fac], call.at)
        /\ \A pk \in (DOMAIN store \cup DOMAIN call.store0) \ {BatchKey(i) : i \in 1..Len(call.keys)} :
              MapGet(store, pk) = MapGet(call.store0, pk)

\* A per-key mset of one key with a numeric ttl under the default concurrency
\* 1 resolved on a store that held both keys: the listed key is overwritten,
\* the other one kept.
C18_Witness ==
    /\ call.op = "mset" /\ call.shape = "seq" /\ ~call.native /\ mstatus = "resolved"
    /\ conc = Num(1) /\ Len(call.keys) = 1 /\ call.a = Num(MaxTtl)
    /\ Cardinality(DOMAIN call.store0) = 2 /\ Cardinality(DOMAIN store) = 2
    /\ MapGet(store, BatchKey(1)) # MapGet(call.store0, BatchKey(1))

\* A transform or adapter call of the batch never settles.
AnyHung == call.kind = "hung" \/ \E w \in DOMAIN workers : workers[w].st = "hung"

\* A map or batch call has been made and has not resolved.
Running == mstatus = "pending" \/ call.kind = "native"

\* The transform of the mapper whose result resolves the call.
LastTransform ==
    CASE call.op = "mget" -> "post"
      [] call.op = "mset" -> "set"
      [] OTHER -> "func"

\* C19: with a fair event loop a map or batch call whose transforms and
\* adapter calls all settle successfully eventually resolves, bounded or not;
\* when it resolves every async function has ended and the transform was
\* called for every item; and once one of its adapter calls hangs it stays
\* hung and the call is never resolved.
C19_Termination ==
    /\ Running ~> (mstatus = "resolved" \/ AnyHung)
    /\ [](mstatus = "resolved" =>
             /\ \A w \in DOMAIN workers : workers[w].st = "done"
             /\ IF call.op = "mset" /\ call.native
                THEN <<"mset", 0>> \in DOMAIN call.ops
                ELSE \A i \in 0..(Len(items) - 1) : <<LastTransform, i>> \in DOMAIN call.ops)
    /\ [](AnyHung => mstatus # "resolved")
    /\ [][AnyHung => AnyHung']_vars

\* An mset under concurrency 2 whose first store.set hangs while every other
\* pair is written: the call stays pending.
C19_Witness ==
    /\ call.op = "mset" /\ Bounded(conc) /\ Len(items) = 3 /\ mstatus = "pending"
    /\ workers[1] = Worker("hung", 0) /\ workers[2] = Worker("done", 2)
    /\ Len(results) = 2

\* C20: the physical key a set writes is namespace, ":", logical key,
\* concatenated as they are; for facades whose namespaces hold no ":",
\* different (namespace, logical key) pairs have different physical keys,
\* logical keys with ":" included; facades with the same namespace have the
\* same physical key for every logical key, and a get through one right
\* after a set through the other returns the value set.
C20_Namespacer ==
    /\ last.op = "set" =>
          /\ MapHas(store, opts[last.fac].namespace \o <<":">> \o last.key)
          /\ Decode(store[opts[last.fac].namespace \o <<":">> \o last.key]).value = last.val
    /\ \A f1 \in DOMAIN opts, f2 \in DOMAIN opts, k1 \in Keys, k2 \in Keys :
          /\ (/\ NoSeparator(opts[f1].namespace) /\ NoSeparator(opts[f2].namespace)
              /\ <<opts[f1].namespace, k1>> # <<opts[f2].namespace, k2>>)
             => _getKeyPrefix(opts[f1], k1) # _getKeyPrefix(opts[f2], k2)
          /\ opts[f1].namespace = opts[f2].namespace
             => _getKeyPrefix(opts[f1], k1) = _getKeyPrefix(opts[f2], k1)
    /\ (/\ last.op = "get" /\ last.via # 0
        /\ opts[last.via].namespace = opts[last.fac].namespace)
       => last.res = Hit(hist[LastKey].val)

\* A get of "b:x" through one facade of namespace "a" returned what the
\* other facade of namespace "a" had just set.
C20_Witness ==
    /\ last.op = "get" /\ last.via # 0 /\ last.via # last.fac
    /\ opts[last.via].namespace = <<"a">> /\ opts[last.fac].namespace = <<"a">>
    /\ last.key = <<"b", ":", "x">>
    /\ last.res = Hit(MaxVal)

====
